---- MODULE Spec2Model ----
(***************************************************************************)
(* Lattice-model evaluation and MCMC sampling engine of smol:              *)
(*   - ClusterExpansionProcessor (smol/moca/processor.py)                  *)
(*   - MCKernel, Metropolis, UniformlyRandom (smol/moca/sampler/kernel.py) *)
(*   - Sampler, MetropolisSampler (smol/moca/sampler/base.py,              *)
(*     metropolis.py)                                                      *)
(*   - Sublattice, get_sublattices (smol/moca/ensemble/sublattice.py)      *)
(*   - occupancy statistics, link counts, integer grid                     *)
(*     (smol/moca/utils.py)                                                *)
(*                                                                         *)
(* Numbers.  Correlations are averages, hence rationals.  Every feature    *)
(* value is held as an integer in units of 1/Scale, where Scale is the     *)
(* least common multiple of the averaging denominators of all orbit        *)
(* functions, so that every value is exact.  Energies (dot products with   *)
(* integer coefficients) and exponents are in the same units.              *)
(*                                                                         *)
(* Indices.  Site indices and species codes are 0-based as in the code;    *)
(* an occupancy is a function from site index to species code.  Tuples     *)
(* and lists are 1-based sequences: the Python f[0], f[1] of a flip are    *)
(* f[1], f[2] here.                                                        *)
(***************************************************************************)
EXTENDS Integers, Sequences, FiniteSets, TLC

VARIABLES
    occupancy,   \* the walker's encoded occupancy (ndarray mutated in place)
    kernel,      \* the MCKernel instance: status, class, _usher, _bias, beta
    sampler,     \* the MetropolisSampler instance: status, _usher
    ret,         \* the value returned by the last single_step/_attempt_step
    call,        \* what the last step call did (proposal, exponent, draw)
    counts,      \* calls made so far to the collaborators of the step loop
    procCall,    \* the last direct call of a Processor method and its result
    run,         \* one call of Sampler.run: arguments, loop position, arrays
    ensemble,    \* the ensemble's sublattices and the last call made on one
    processor,   \* the processor's orbit_list and orbits_by_sites
    invocation   \* the last call of a utility, setter or constructor

vars == <<occupancy, kernel, sampler, ret, call, counts, procCall, run,
          ensemble, processor, invocation>>

(***************************************************************************)
(* Bounds of the model.                                                    *)
(***************************************************************************)
\* longest list of flips handed directly to the processor
MaxFlips == 2
\* number of step calls followed in one behaviour
MaxSteps == 2

(***************************************************************************)
(* Generic helpers on sequences of integers (numpy vector arithmetic).     *)
(***************************************************************************)
RECURSIVE SeqSum(_)
SeqSum(s) == IF s = <<>> THEN 0 ELSE Head(s) + SeqSum(Tail(s))

RECURSIVE SeqProd(_)
SeqProd(s) == IF s = <<>> THEN 1 ELSE Head(s) * SeqProd(Tail(s))

RECURSIVE Flatten(_)
Flatten(ss) == IF ss = <<>> THEN <<>> ELSE Head(ss) \o Flatten(Tail(ss))

VecAdd(a, b) == [n \in 1..Len(a) |-> a[n] + b[n]]
VecSub(a, b) == [n \in 1..Len(a) |-> a[n] - b[n]]
Dot(a, b) == SeqSum([n \in 1..Len(a) |-> a[n] * b[n]])

(***************************************************************************)
(* The supercell handed to the processor: a primitive cell with one        *)
(* ternary site (a), one binary site (b) and one site of a single species  *)
(* (c), doubled.  Sites 0,1 are of kind a, sites 2,3 of kind b, sites 4,5  *)
(* of kind c.  The sites of kind c have no site basis function and belong  *)
(* to no orbit.                                                            *)
(***************************************************************************)
\* processor.bits: the allowed species of every supercell site, in order
bits == << <<"Li+", "Mn3+", "Vacancy">>, <<"Li+", "Mn3+", "Vacancy">>,
           <<"O2-", "F-">>, <<"O2-", "F-">>, <<"S2-">>, <<"S2-">> >>

Sites == 0..(Len(bits) - 1)
NumSpecies(site) == Len(bits[site + 1])

\* site basis functions, indexed [basis function + 1][species code + 1]
TernaryBasis == << <<1, 0, -1>>, <<1, -2, 1>> >>
BinaryBasis == << <<1, -1>> >>

\* subspace.supercell_orbit_mappings(supercell_matrix): for every orbit its
\* first feature index (bit_id), its bit combinations (one list of
\* symmetry-equivalent combinations per orbit function), its basis arrays
\* (one per cluster site) and the site-index tuples realising it.
orbit_inds ==
    << [bit_id |-> 1,
        bit_combos |-> << << <<0>> >>, << <<1>> >> >>,
        bases_array |-> << TernaryBasis >>,
        inds |-> << <<0>>, <<1>> >>],
       [bit_id |-> 3,
        bit_combos |-> << << <<0>> >> >>,
        bases_array |-> << BinaryBasis >>,
        inds |-> << <<2>>, <<3>> >>],
       [bit_id |-> 4,
        bit_combos |-> << << <<0, 0>> >>, << <<1, 0>> >> >>,
        bases_array |-> << TernaryBasis, BinaryBasis >>,
        inds |-> << <<0, 2>>, <<1, 3>> >>],
       [bit_id |-> 6,
        bit_combos |-> << << <<0, 0>> >>, << <<0, 1>>, <<1, 0>> >>,
                          << <<1, 1>> >> >>,
        bases_array |-> << TernaryBasis, TernaryBasis >>,
        inds |-> << <<0, 1>>, <<1, 0>> >>] >>

\* subspace.n_bit_orderings: the constant function plus every orbit function
n_orbit_functions ==
    1 + SeqSum([o \in 1..Len(orbit_inds) |-> Len(orbit_inds[o].bit_combos)])

\* the fitted coefficients, one per feature
ecis == <<-3, 1, 0, 1, 1, -1, 1, 0, -1>>

\* number of primitive cells in the supercell
size == Len(bits) \div 3

(***************************************************************************)
(* ClusterExpansionProcessor.__init__: the two adjacency views.            *)
(***************************************************************************)
orbit_list ==
    [o \in 1..Len(orbit_inds) |->
        [bit_id |-> orbit_inds[o].bit_id,
         bit_combos |-> orbit_inds[o].bit_combos,
         bases_array |-> orbit_inds[o].bases_array,
         inds |-> orbit_inds[o].inds]]

\* np.any(inds == site_ind, axis=-1), as the selected rows
InInds(inds, site_ind) ==
    SelectSeq(inds, LAMBDA t : \E j \in 1..Len(t) : t[j] = site_ind)

\* np.unique(inds)
UniqueSites(inds) == {inds[i][j] : i \in 1..Len(inds), j \in 1..Len(inds[1])}

\* one entry of orbits_by_sites[site_ind]; ratio = len(inds) / sum(in_inds)
\* is kept as the pair <<numerator, denominator>>
SiteOrbitEntry(orbit, site_ind) ==
    [bit_id |-> orbit.bit_id,
     ratio |-> <<Len(orbit.inds), Len(InInds(orbit.inds, site_ind))>>,
     bit_combos |-> orbit.bit_combos,
     bases_array |-> orbit.bases_array,
     inds |-> InInds(orbit.inds, site_ind)]

RECURSIVE SiteOrbits(_, _)
SiteOrbits(orbits, site_ind) ==
    IF orbits = <<>> THEN <<>>
    ELSE (IF site_ind \in UniqueSites(Head(orbits).inds)
          THEN <<SiteOrbitEntry(Head(orbits), site_ind)>> ELSE <<>>)
         \o SiteOrbits(Tail(orbits), site_ind)

\* the defaultdict(list): a site in no orbit has the empty list
orbits_by_sites == [s \in Sites |-> SiteOrbits(orbit_inds, s)]

\* the keys of orbits_by_sites after __init__: the sites appended to
orbits_by_sites_keys ==
    UNION {UniqueSites(orbit_inds[o].inds) : o \in 1..Len(orbit_inds)}

\* the processor after __init__; orbits_by_sites with its keys as domain
Processor_init ==
    [orbit_list |-> orbit_list,
     orbits_by_sites |-> [s \in orbits_by_sites_keys |-> orbits_by_sites[s]]]

\* defaultdict.__getitem__: the dictionary after reading d[key]; a missing
\* key is inserted with the empty list
defaultdict_getitem(d, key) ==
    IF key \in DOMAIN d THEN d ELSE d @@ (key :> <<>>)

\* orbits_by_sites after the reads of delta_corr(flips, occu), line 165
RECURSIVE delta_corr_reads(_, _)
delta_corr_reads(flips, d) ==
    IF flips = <<>> THEN d
    ELSE delta_corr_reads(Tail(flips), defaultdict_getitem(d, Head(flips)[1]))

\* the processor after a call of delta_corr(flips, occu)
AfterDeltaCorr(p, flips) ==
    [p EXCEPT !.orbits_by_sites = delta_corr_reads(flips, @)]

(***************************************************************************)
(* Correlation evaluation.                                                 *)
(***************************************************************************)
\* averaging denominators: (number of equivalent combinations) x (instances)
FunctionNorms ==
    UNION {{Len(orbit_inds[o].bit_combos[k]) * Len(orbit_inds[o].inds) :
               k \in 1..Len(orbit_inds[o].bit_combos)} :
           o \in 1..Len(orbit_inds)}

Scale ==
    CHOOSE m \in 1..64 :
        /\ \A d \in FunctionNorms : m % d = 0
        /\ \A m2 \in 1..(m - 1) : \E d \in FunctionNorms : m2 % d # 0

\* row[i] of an array row: an index below zero counts from the end
NpItem(row, i) == IF i < 0 THEN row[Len(row) + i + 1] ELSE row[i + 1]

\* product of the site basis functions of one combination on one instance
ClusterProd(bases, combo, ind, occu) ==
    SeqProd([j \in 1..Len(ind) |->
        NpItem(bases[j][combo[j] + 1], occu[ind[j]])])

\* sum of ClusterProd over the equivalent combinations and the instances
OrbitSum(combos, bases, inds, occu) ==
    SeqSum(Flatten([c \in 1..Len(combos) |->
        [i \in 1..Len(inds) |-> ClusterProd(bases, combos[c], inds[i], occu)]]))

\* the entry of `orbits` that owns feature index n (0-based), or 0
OwnerOf(orbits, n) ==
    IF \E o \in 1..Len(orbits) :
          orbits[o].bit_id <= n /\ n < orbits[o].bit_id + Len(orbits[o].bit_combos)
    THEN CHOOSE o \in 1..Len(orbits) :
          orbits[o].bit_id <= n /\ n < orbits[o].bit_id + Len(orbits[o].bit_combos)
    ELSE 0

\* ce_utils.corr_from_occupancy: entry 0 is the constant orbit; every other
\* entry is the average of its orbit function over all instances
corr_from_occupancy(occu, n_bit_orderings, orbits) ==
    [n1 \in 1..n_bit_orderings |->
        IF n1 = 1 THEN Scale
        ELSE LET o == OwnerOf(orbits, n1 - 1) IN
             IF o = 0 THEN 0
             ELSE LET orb == orbits[o]
                      combos == orb.bit_combos[n1 - orb.bit_id]
                  IN (Scale * OrbitSum(combos, orb.bases_array, orb.inds, occu))
                        \div (Len(combos) * Len(orb.inds))]

\* ce_utils.delta_corr_single_flip: for the orbits touching the flipped site,
\* the change of the orbit sums over the instances containing the site,
\* averaged over those instances and divided by ratio
delta_corr_single_flip(occu_f, occu_i, n_bit_orderings, site_orbit_list) ==
    [n1 \in 1..n_bit_orderings |->
        LET o == OwnerOf(site_orbit_list, n1 - 1) IN
        IF o = 0 THEN 0
        ELSE LET orb == site_orbit_list[o]
                 combos == orb.bit_combos[n1 - orb.bit_id]
                 p == OrbitSum(combos, orb.bases_array, orb.inds, occu_f)
                      - OrbitSum(combos, orb.bases_array, orb.inds, occu_i)
             IN (Scale * p * orb.ratio[2])
                    \div (orb.ratio[1] * Len(combos) * Len(orb.inds))]

\* the orbit functions alone, without the entry of the constant orbit
compute_correlation_orbits_only(occu) ==
    Tail(corr_from_occupancy(occu, n_orbit_functions, orbit_list))

\* ClusterExpansionProcessor.compute_correlation
compute_correlation(occu) ==
    corr_from_occupancy(occu, n_orbit_functions, orbit_list)

RECURSIVE delta_corr_stale_loop(_, _, _)
delta_corr_stale_loop(flips, occu_i, acc) ==
    IF flips = <<>> THEN acc
    ELSE LET f == Head(flips)
             occu_f == [occu_i EXCEPT ![f[1]] = f[2]]
         IN delta_corr_stale_loop(Tail(flips), occu_i,
                VecAdd(acc, delta_corr_single_flip(occu_f, occu_i,
                                n_orbit_functions, orbits_by_sites[f[1]])))

\* delta_corr without line 169 (occu_i = occu_f): every flip is evaluated
\* against the initial occupancy
delta_corr_stale(flips, occu) ==
    delta_corr_stale_loop(flips, occu, [n \in 1..n_orbit_functions |-> 0])

RECURSIVE delta_corr_loop(_, _, _)
delta_corr_loop(flips, occu_i, acc) ==
    IF flips = <<>> THEN acc
    ELSE LET f == Head(flips)
             occu_f == [occu_i EXCEPT ![f[1]] = f[2]]
             orbits == orbits_by_sites[f[1]]
         IN delta_corr_loop(Tail(flips), occu_f,
                VecAdd(acc, delta_corr_single_flip(occu_f, occu_i,
                                n_orbit_functions, orbits)))

\* only the last flip of the list counted, on the initial occupancy
delta_corr_last_flip(flips, occu) ==
    delta_corr_loop(IF flips = <<>> THEN <<>> ELSE <<flips[Len(flips)]>>,
                    occu, [n \in 1..n_orbit_functions |-> 0])

\* ClusterExpansionProcessor.delta_corr
delta_corr(flips, occu) ==
    delta_corr_loop(flips, occu, [n \in 1..n_orbit_functions |-> 0])

\* ClusterExpansionProcessor.compute_property
compute_property(occu) == Dot(compute_correlation(occu), ecis) * size

\* the change per primitive cell: the factor size left out
compute_property_change_per_prim(occu, flips) ==
    Dot(delta_corr(flips, occu), ecis)

\* ClusterExpansionProcessor.compute_property_change
compute_property_change(occu, flips) ==
    Dot(delta_corr(flips, occu), ecis) * size

\* the commit loop with the pair read the wrong way: occupancy[f[1]] = f[0]
RECURSIVE ApplyStep_swapped_pair(_, _)
ApplyStep_swapped_pair(occu, step) ==
    IF step = <<>> THEN occu
    ELSE ApplyStep_swapped_pair(
             [occu EXCEPT ![Head(step)[2]] = Head(step)[1]], Tail(step))

\* the commit loop `for f in step: occupancy[f[0]] = f[1]`
RECURSIVE ApplyStep(_, _)
ApplyStep(occu, step) ==
    IF step = <<>> THEN occu
    ELSE ApplyStep([occu EXCEPT ![Head(step)[1]] = Head(step)[2]], Tail(step))

(***************************************************************************)
(* Ensemble: the canonical ensemble passes features through to the         *)
(* processor and uses the coefficients as natural parameters.              *)
(***************************************************************************)
natural_parameters == ecis

compute_feature_vector(occu) == compute_correlation(occu)

compute_feature_vector_change(occu, step) == delta_corr(step, occu)

MaxNumSpecies ==
    CHOOSE m \in {NumSpecies(s) : s \in Sites} :
        \A s \in Sites : NumSpecies(s) <= m

\* the encoded occupancies: every entry a species code of its site
ValidOccupancies == {occu \in [Sites -> 0..(MaxNumSpecies - 1)] :
                        \A s \in Sites : occu[s] < NumSpecies(s)}

\* get_sublattices: one sublattice per distinct site space, holding the
\* sites with that site space; after construction every site is active
Sublattices ==
    {[site_space |-> bits[s + 1],
      sites |-> {t \in Sites : bits[t + 1] = bits[s + 1]},
      active_sites |-> {t \in Sites : bits[t + 1] = bits[s + 1]}] : s \in Sites}

(***************************************************************************)
(* MCUsher: the steps propose_step may return for an occupancy.            *)
(***************************************************************************)
\* Flipper: an active site of a sublattice and a species of its site space
\* other than the current occupant
FlipperStepsOn(sublattices, occu) ==
    UNION {UNION {
        {<< <<site, sp>> >> :
            sp \in {c \in 0..(Len(sl.site_space) - 1) : c # occu[site]}} :
        site \in sl.active_sites} : sl \in sublattices}

FlipperSteps(occu) == FlipperStepsOn(Sublattices, occu)

\* Swapper: two active sites of one sublattice with different occupants
\* exchange them; the empty step when the chosen site has no partner
SwapperStepsOn(sublattices, occu) ==
    UNION {UNION {
        IF \E site2 \in sl.active_sites : occu[site2] # occu[site1]
        THEN {<< <<site1, occu[site2]>>, <<site2, occu[site1]>> >> :
                 site2 \in {t \in sl.active_sites : occu[t] # occu[site1]}}
        ELSE {<<>>} : site1 \in sl.active_sites} : sl \in sublattices}

SwapperSteps(occu) == SwapperStepsOn(Sublattices, occu)

\* the usher of a sampler built with sublattices=...: only these are moved
propose_step_on(usher, sublattices, occu) ==
    IF usher = "Flipper" THEN FlipperStepsOn(sublattices, occu)
    ELSE SwapperStepsOn(sublattices, occu)

propose_step(usher, occu) ==
    IF usher = "Flipper" THEN FlipperSteps(occu) ELSE SwapperSteps(occu)

\* MCBias.compute_bias_change: some scalar; nothing changes for no move
compute_bias_change(occu, step) ==
    IF step = <<>> THEN {0} ELSE {-1, 0, 1}

(***************************************************************************)
(* Values of log(random()): random() is uniform on (0, 1), its logarithm   *)
(* is negative.  The values span the exponents the lattice produces.       *)
(***************************************************************************)
LogDraws == {-1, -9, -81}

\* beta = 1 / (kB * temperature) of the temperature setter, in model units
Betas == {1, 2}

\* numpy values as they are returned: a scalar has no axis, a vector one
NpScalar(x) == [ndim |-> 0, data |-> <<x>>]
NpVector(v) == [ndim |-> 1, data |-> v]

(***************************************************************************)
(* MCKernel.__init__ with the registries of the module.                    *)
(***************************************************************************)
ALL_MCUSHERS == [flip |-> "Flipper", swap |-> "Swapper"]
\* the keys of the (empty) registry of bias classes
ALL_BIAS == {}

KernelClasses == {"Metropolis", "UniformlyRandom"}
StepTypes == {"flip", "swap", "multiflip"}
BiasTypes == {"None", "composition"}

\* the kernel object as __init__ leaves it, with the error it raised
MCKernel_init(class, step_type, bias_type, beta) ==
    IF step_type \notin DOMAIN ALL_MCUSHERS
    THEN \* KeyError from valid_mcushers[step_type], lines 64-67
         [status |-> "failed", class |-> class, step_type |-> step_type,
          bias_type |-> bias_type, error |-> "ValueError",
          usher |-> "None", bias |-> "None", beta |-> 0]
    ELSE IF bias_type \notin ALL_BIAS
    THEN \* KeyError from valid_bias[bias_type], lines 73-76
         [status |-> "failed", class |-> class, step_type |-> step_type,
          bias_type |-> bias_type, error |-> "ValueError",
          usher |-> ALL_MCUSHERS[step_type], bias |-> "None", beta |-> 0]
    ELSE [status |-> "ready", class |-> class, step_type |-> step_type,
          bias_type |-> bias_type, error |-> "none",
          usher |-> ALL_MCUSHERS[step_type], bias |-> bias_type,
          beta |-> IF class = "Metropolis" THEN beta ELSE 0]

NoKernel ==
    [status |-> "absent", class |-> "None", step_type |-> "None",
     bias_type |-> "None", error |-> "none", usher |-> "None",
     bias |-> "None", beta |-> 0]

UnbuiltKernel == [NoKernel EXCEPT !.status = "unbuilt"]

\* Kernel instances on which single_step is followed: _usher an usher,
\* _bias None (the case line 223 handles) or a bias, beta set by the
\* temperature setter.  valid_mcushers and valid_bias are class attributes
\* "set in derived kernels" (lines 30-31); with the registries of this
\* module MCKernel_init never returns an instance, so the instances are
\* given in the initial state beside the kernel still to be constructed.
ReadyKernels ==
    {[status |-> "ready", class |-> c, step_type |-> st, bias_type |-> b,
      error |-> "none", usher |-> ALL_MCUSHERS[st], bias |-> b,
      beta |-> IF c = "Metropolis" THEN be ELSE 0] :
        c \in KernelClasses, st \in DOMAIN ALL_MCUSHERS,
        b \in {"None", "MCBias"}, be \in Betas}

(***************************************************************************)
(* single_step of the two kernels: the set of outcomes of one call for a   *)
(* proposed step.  The bias is asked only when there is one, and           *)
(* log(random()) is drawn only where the code calls random().  An outcome  *)
(* records the returned tuple and what the call used: draws of random(),   *)
(* evaluations of the feature change, calls of update_aux_state.           *)
(***************************************************************************)
Outcome(accept, after, third, fourth, exponent, delta_bias, draws, logu, evals, aux) ==
    [occupancy |-> after,
     ret |-> <<accept, after, third, fourth>>,
     exponent |-> exponent, delta_bias |-> delta_bias,
     draws |-> draws, logu |-> logu, evals |-> evals, aux |-> aux]

\* UniformlyRandom with a zero-temperature test in place of `True`
UniformlyRandom_single_step_downhill(k, occu, step) ==
    LET delta_features == compute_feature_vector_change(occu, step)
        delta_enthalpy == Dot(natural_parameters, delta_features)
        accept == delta_enthalpy <= 0
    IN  {Outcome(accept, IF accept THEN ApplyStep(occu, step) ELSE occu,
                 NpScalar(delta_enthalpy), NpVector(delta_features),
                 0, 0, 0, 0, 1, 1)}

\* UniformlyRandom.single_step
UniformlyRandom_single_step(k, occu, step) ==
    LET delta_features == compute_feature_vector_change(occu, step)
        delta_enthalpy == Dot(natural_parameters, delta_features)
    IN  {Outcome(TRUE, ApplyStep(occu, step),
                 NpScalar(delta_enthalpy), NpVector(delta_features),
                 0, 0, 0, 0, 1, 1)}

\* the values of delta_bias of line 223-224
DeltaBias(k, occu, step) ==
    IF k.bias = "None" THEN {0} ELSE compute_bias_change(occu, step)

\* Metropolis.single_step drawing always: accept = exponent > log(random())
Metropolis_single_step_always_draws(k, occu, step) ==
    LET delta_features == compute_feature_vector_change(occu, step)
        delta_enthalpy == Dot(natural_parameters, delta_features)
    IN  UNION {
          LET exponent == (-k.beta) * delta_enthalpy + delta_bias IN
            {Outcome(exponent > logu,
                     IF exponent > logu THEN ApplyStep(occu, step) ELSE occu,
                     NpScalar(delta_enthalpy), NpVector(delta_features),
                     exponent, delta_bias, 1, logu, 1,
                     IF exponent > logu THEN 1 ELSE 0) : logu \in LogDraws}
          : delta_bias \in DeltaBias(k, occu, step)}

\* Metropolis.single_step with update_aux_state outside the `if accept`
Metropolis_single_step_aux_always(k, occu, step) ==
    LET delta_features == compute_feature_vector_change(occu, step)
        delta_enthalpy == Dot(natural_parameters, delta_features)
    IN  UNION {
          LET exponent == (-k.beta) * delta_enthalpy + delta_bias IN
          IF exponent >= 0
          THEN {Outcome(TRUE, ApplyStep(occu, step),
                        NpScalar(delta_enthalpy), NpVector(delta_features),
                        exponent, delta_bias, 0, 0, 1, 1)}
          ELSE {Outcome(exponent > logu,
                        IF exponent > logu THEN ApplyStep(occu, step) ELSE occu,
                        NpScalar(delta_enthalpy), NpVector(delta_features),
                        exponent, delta_bias, 1, logu, 1, 1)
                   : logu \in LogDraws}
          : delta_bias \in DeltaBias(k, occu, step)}

\* Metropolis.single_step with the commit loop outside the `if accept`
Metropolis_single_step_commit_always(k, occu, step) ==
    LET delta_features == compute_feature_vector_change(occu, step)
        delta_enthalpy == Dot(natural_parameters, delta_features)
    IN  UNION {
          LET exponent == (-k.beta) * delta_enthalpy + delta_bias IN
          IF exponent >= 0
          THEN {Outcome(TRUE, ApplyStep(occu, step),
                        NpScalar(delta_enthalpy), NpVector(delta_features),
                        exponent, delta_bias, 0, 0, 1, 1)}
          ELSE {Outcome(exponent > logu, ApplyStep(occu, step),
                        NpScalar(delta_enthalpy), NpVector(delta_features),
                        exponent, delta_bias, 1, logu, 1,
                        IF exponent > logu THEN 1 ELSE 0)
                   : logu \in LogDraws}
          : delta_bias \in DeltaBias(k, occu, step)}

\* Metropolis.single_step
Metropolis_single_step(k, occu, step) ==
    LET delta_features == compute_feature_vector_change(occu, step)
        delta_enthalpy == Dot(natural_parameters, delta_features)
    IN  UNION {
          LET exponent == (-k.beta) * delta_enthalpy + delta_bias IN
          IF exponent >= 0
          THEN {Outcome(TRUE, ApplyStep(occu, step),
                        NpScalar(delta_enthalpy), NpVector(delta_features),
                        exponent, delta_bias, 0, 0, 1, 1)}
          ELSE {Outcome(exponent > logu,
                        IF exponent > logu THEN ApplyStep(occu, step) ELSE occu,
                        NpScalar(delta_enthalpy), NpVector(delta_features),
                        exponent, delta_bias, 1, logu, 1,
                        IF exponent > logu THEN 1 ELSE 0)
                   : logu \in LogDraws}
          : delta_bias \in DeltaBias(k, occu, step)}

(***************************************************************************)
(* MetropolisSampler.                                                      *)
(***************************************************************************)
valid_mcmc_ushers == [flip |-> "Flipper", swap |-> "Swapper"]

\* the ushers the (canonical) ensemble offers, the first being the default
ensemble_valid_mcmc_ushers == <<"Swapper">>

NoSampler ==
    [status |-> "absent", step_type |-> "None", error |-> "none",
     usher |-> "None", beta |-> 0]

UnbuiltSampler == [NoSampler EXCEPT !.status = "unbuilt"]

\* the check of line 51 dropped: an unknown name falls back to the default
MetropolisSampler_init_lenient(step_type, beta) ==
    [status |-> "ready", step_type |-> step_type, error |-> "none",
     usher |-> IF step_type \in DOMAIN valid_mcmc_ushers
               THEN valid_mcmc_ushers[step_type]
               ELSE ensemble_valid_mcmc_ushers[1],
     beta |-> beta]

\* MetropolisSampler.__init__ (step_type "None" is the default None)
MetropolisSampler_init(step_type, beta) ==
    IF step_type = "None"
    THEN [status |-> "ready", step_type |-> step_type, error |-> "none",
          usher |-> ensemble_valid_mcmc_ushers[1], beta |-> beta]
    ELSE IF step_type \notin DOMAIN valid_mcmc_ushers
    THEN [status |-> "failed", step_type |-> step_type,
          error |-> "ValueError", usher |-> "None", beta |-> 0]
    ELSE [status |-> "ready", step_type |-> step_type, error |-> "none",
          usher |-> valid_mcmc_ushers[step_type], beta |-> beta]

\* MetropolisSampler._attempt_step
attempt_step(s, occu, step) ==
    LET delta_features == compute_feature_vector_change(occu, step)
        delta_enthalpy == Dot(natural_parameters, delta_features)
        exponent == (-s.beta) * delta_enthalpy
    IN  IF delta_enthalpy <= 0
        THEN {Outcome(TRUE, ApplyStep(occu, step),
                      NpVector(delta_features), NpScalar(delta_enthalpy),
                      exponent, 0, 0, 0, 1, 0)}
        ELSE {Outcome(exponent > logu,
                      IF exponent > logu THEN ApplyStep(occu, step) ELSE occu,
                      NpVector(delta_features), NpScalar(delta_enthalpy),
                      exponent, 0, 1, logu, 1, 0) : logu \in LogDraws}

(***************************************************************************)
(* State machine of the kernel and of the sampler.                         *)
(***************************************************************************)
NoCall ==
    [op |-> "none", step |-> <<>>, before |-> [s \in Sites |-> 0],
     exponent |-> 0, delta_bias |-> 0, draws |-> 0, logu |-> 0,
     evals |-> 0, aux |-> 0]

NoCounts == [steps |-> 0, accepted |-> 0, aux |-> 0, draws |-> 0, evals |-> 0]

NoProcCall == [op |-> "none", flips |-> <<>>, result |-> <<>>]

NoInvocation == [op |-> "none", args |-> <<>>, result |-> <<>>]

\* no array: the argument None
NoArray == [ndim |-> 0, data |-> <<>>]

NoSample ==
    [accepted |-> <<>>, occupancies |-> <<>>, features |-> <<>>,
     enthalpies |-> <<>>]

NoRun ==
    [status |-> "idle", error |-> "none", nsteps |-> 0, thin_by |-> 1,
     initial_occupancies |-> NoArray,
     samples |-> [shape |-> <<0, 0>>, total |-> 0, last |-> NoSample],
     start_total |-> 0,
     occupancies |-> <<>>, accepted |-> <<>>, feature_blob |-> <<>>,
     enthalpies |-> <<>>, attempts |-> <<>>,
     outer |-> 0, inner |-> 0, i |-> 0,
     yielded |-> 0, saved |-> 0, result |-> NoSample, rng |-> 0]

NoEnsemble ==
    [sublattices |-> <<>>, op |-> "none", k |-> 0, arg |-> {},
     before |-> <<>>]

Init ==
    /\ occupancy \in ValidOccupancies
    /\ \/ kernel \in ReadyKernels \cup {UnbuiltKernel} /\ sampler = NoSampler
       \/ kernel = NoKernel /\ sampler = UnbuiltSampler
    /\ ret = <<>>
    /\ call = NoCall
    /\ counts = NoCounts
    /\ procCall = NoProcCall
    /\ processor = Processor_init
    /\ invocation = NoInvocation
    /\ run = NoRun
    /\ ensemble = NoEnsemble

\* kernel = Metropolis(ensemble, step_type, temperature, bias_type=...) or
\* UniformlyRandom(ensemble, step_type, bias_type=...)
KernelInit ==
    /\ kernel.status = "unbuilt"
    /\ \E class \in KernelClasses, step_type \in StepTypes,
          bias_type \in BiasTypes, beta \in Betas :
          kernel' = MCKernel_init(class, step_type, bias_type, beta)
    /\ UNCHANGED <<occupancy, sampler, ret, call, counts, procCall, run,
                   ensemble, processor, invocation>>

Record(op, r, occu, step) ==
    /\ occupancy' = r.occupancy
    /\ processor' = AfterDeltaCorr(processor, step)
    /\ ret' = r.ret
    /\ call' = [op |-> op, step |-> step, before |-> occu,
                exponent |-> r.exponent, delta_bias |-> r.delta_bias,
                draws |-> r.draws, logu |-> r.logu,
                evals |-> r.evals, aux |-> r.aux]
    /\ counts' = [steps |-> counts.steps + 1,
                  accepted |-> counts.accepted + (IF r.ret[1] THEN 1 ELSE 0),
                  aux |-> counts.aux + r.aux,
                  draws |-> counts.draws + r.draws,
                  evals |-> counts.evals + r.evals]

\* kernel.single_step(occupancy) on a Metropolis kernel
MetropolisSingleStep ==
    /\ kernel.status = "ready"
    /\ kernel.class = "Metropolis"
    /\ counts.steps < MaxSteps
    /\ \E step \in propose_step(kernel.usher, occupancy) :
       \E r \in Metropolis_single_step(kernel, occupancy, step) :
          Record("Metropolis.single_step", r, occupancy, step)
    /\ UNCHANGED <<kernel, sampler, procCall, run, ensemble, invocation>>

\* kernel.single_step(occupancy) on a UniformlyRandom kernel
UniformlyRandomSingleStep ==
    /\ kernel.status = "ready"
    /\ kernel.class = "UniformlyRandom"
    /\ counts.steps < MaxSteps
    /\ \E step \in propose_step(kernel.usher, occupancy) :
       \E r \in UniformlyRandom_single_step(kernel, occupancy, step) :
          Record("UniformlyRandom.single_step", r, occupancy, step)
    /\ UNCHANGED <<kernel, sampler, procCall, run, ensemble, invocation>>

\* sampler = MetropolisSampler(ensemble, step_type=...)
SamplerInit ==
    /\ sampler.status = "unbuilt"
    /\ \E step_type \in StepTypes \cup {"None"}, beta \in Betas :
          sampler' = MetropolisSampler_init(step_type, beta)
    /\ UNCHANGED <<occupancy, kernel, ret, call, counts, procCall, run,
                   ensemble, processor, invocation>>

\* sampler._attempt_step(occupancy)
AttemptStep ==
    /\ sampler.status = "ready"
    /\ counts.steps < MaxSteps
    /\ \E step \in propose_step(sampler.usher, occupancy) :
       \E r \in attempt_step(sampler, occupancy, step) :
          Record("_attempt_step", r, occupancy, step)
    /\ UNCHANGED <<kernel, sampler, procCall, run, ensemble, invocation>>

Next ==
    \/ KernelInit
    \/ MetropolisSingleStep
    \/ UniformlyRandomSingleStep
    \/ SamplerInit
    \/ AttemptStep

Spec == Init /\ [][Next]_vars

(***************************************************************************)
(* Direct calls of the processor on an occupancy.  The methods are pure    *)
(* (delta_corr works on copies of the occupancy), so one call is followed  *)
(* from every occupancy.                                                   *)
(***************************************************************************)
\* a flip names a site and a species code of that site
Flips == UNION {{<<s, sp>> : sp \in 0..(NumSpecies(s) - 1)} : s \in Sites}

RECURSIVE FlipLists(_)
FlipLists(n) ==
    IF n = 0 THEN {<<>>}
    ELSE FlipLists(n - 1) \cup
         {Append(fl, f) : fl \in {l \in FlipLists(n - 1) : Len(l) = n - 1},
                          f \in Flips}

InitProcessor ==
    /\ occupancy \in ValidOccupancies
    /\ kernel = NoKernel
    /\ sampler = NoSampler
    /\ ret = <<>>
    /\ call = NoCall
    /\ counts = NoCounts
    /\ procCall = NoProcCall
    /\ processor = Processor_init
    /\ invocation = NoInvocation
    /\ run = NoRun
    /\ ensemble = NoEnsemble

\* processor.delta_corr(flips, occupancy)
DeltaCorrCall ==
    /\ procCall.op = "none"
    /\ \E flips \in FlipLists(MaxFlips) :
          /\ procCall' = [op |-> "delta_corr", flips |-> flips,
                          result |-> delta_corr(flips, occupancy)]
          /\ processor' = AfterDeltaCorr(processor, flips)
    /\ UNCHANGED <<occupancy, kernel, sampler, ret, call, counts, run,
                   ensemble, invocation>>

\* processor.compute_correlation(occupancy)
ComputeCorrelationCall ==
    /\ procCall.op = "none"
    /\ procCall' = [op |-> "compute_correlation", flips |-> <<>>,
                    result |-> compute_correlation(occupancy)]
    /\ UNCHANGED <<occupancy, kernel, sampler, ret, call, counts, run,
                   ensemble, processor, invocation>>

\* processor.compute_property(occupancy)
ComputePropertyCall ==
    /\ procCall.op = "none"
    /\ procCall' = [op |-> "compute_property", flips |-> <<>>,
                    result |-> compute_property(occupancy)]
    /\ UNCHANGED <<occupancy, kernel, sampler, ret, call, counts, run,
                   ensemble, processor, invocation>>

\* processor.compute_property_change(occupancy, flips)
ComputePropertyChangeCall ==
    /\ procCall.op = "none"
    /\ \E flips \in FlipLists(MaxFlips) :
          /\ procCall' = [op |-> "compute_property_change", flips |-> flips,
                          result |-> compute_property_change(occupancy, flips)]
          /\ processor' = AfterDeltaCorr(processor, flips)
    /\ UNCHANGED <<occupancy, kernel, sampler, ret, call, counts, run,
                   ensemble, invocation>>

NextProcessor ==
    \/ DeltaCorrCall
    \/ ComputeCorrelationCall
    \/ ComputePropertyCall
    \/ ComputePropertyChangeCall

SpecProcessor == InitProcessor /\ [][NextProcessor]_vars

(***************************************************************************)
(* single_step on an occupancy handed in by the caller with one entry      *)
(* that is no species code of its site.  The kernels take the occupancy    *)
(* as it is; the entry reaches a proposed step when the Swapper moves it   *)
(* to another site of the sublattice.                                      *)
(***************************************************************************)
\* occupancies with exactly one entry below the range of its site
InvalidOccupancies ==
    {[occu EXCEPT ![bad] = -1] :
        occu \in {o \in ValidOccupancies : o[1] = 1 /\ o[3] = 1},
        bad \in Sites}

InitInvalid ==
    /\ occupancy \in InvalidOccupancies
    /\ kernel \in ReadyKernels
    /\ sampler = NoSampler
    /\ ret = <<>>
    /\ call = NoCall
    /\ counts = NoCounts
    /\ procCall = NoProcCall
    /\ processor = Processor_init
    /\ invocation = NoInvocation
    /\ run = NoRun
    /\ ensemble = NoEnsemble

NextInvalid ==
    \/ MetropolisSingleStep
    \/ UniformlyRandomSingleStep

SpecInvalid == InitInvalid /\ [][NextInvalid]_vars

(***************************************************************************)
(* Sampler.run and Sampler.sample (base.py) of a MetropolisSampler,        *)
(* followed one walker step at a time.  An array is a record of its ndim   *)
(* and its data: an occupancy (a function of the site index) when ndim is  *)
(* 1, a sequence of occupancies, one per walker, when ndim is 2.  The      *)
(* sample container is held as its shape, the number of saved samples and  *)
(* the last saved sample.  The sampler is built with sublattices=[the      *)
(* two-species sublattice], which freezes the other one.                   *)
(***************************************************************************)
\* largest nsteps handed to run
MaxNSteps == 3
ThinBys == {1, 2}
WalkerCounts == {1, 2}

SamplerSublattices == {sl \in Sublattices : Len(sl.site_space) = 2}

Np1D(occu) == [ndim |-> 1, data |-> occu]
Np2D(rows) == [ndim |-> 2, data |-> rows]
\* ndarray.shape
Shape(a) ==
    IF a.ndim = 1 THEN <<Cardinality(DOMAIN a.data)>>
    ELSE IF a.ndim = 2
    THEN <<Len(a.data), Cardinality(DOMAIN a.data[1])>>
    ELSE <<>>

\* the rows the walkers start from: the frozen sites hold two different
\* species, the moved sites hold equal or different species
StartRows == {occu \in ValidOccupancies :
                 occu[0] = 0 /\ occu[1] = 1 /\ occu[2] = 0}

\* a row with one entry more than the supercell has sites
LongRow(occu) ==
    [s \in 0..Len(bits) |-> IF s \in Sites THEN occu[s] ELSE 0]

\* the values of the argument initial_occupancies
InitialOccupancies ==
    {Np2D(rows) : rows \in UNION {[1..w -> StartRows] : w \in WalkerCounts}}
    \cup {Np1D(occu) : occu \in StartRows}
    \cup {Np1D(LongRow(occu)) : occu \in StartRows}
    \cup {NoArray}

\* a sample left in the container by an earlier run
EarlierSample(nwalkers) ==
    LET occu == CHOOSE o \in StartRows : o[3] = 1
    IN  [accepted |-> [w \in 1..nwalkers |-> 0],
         occupancies |-> [w \in 1..nwalkers |-> occu],
         features |-> [w \in 1..nwalkers |-> compute_feature_vector(occu)],
         enthalpies |-> [w \in 1..nwalkers |->
             Dot(natural_parameters, compute_feature_vector(occu))]]

\* SampleContainer(..., num_walkers=nwalkers) holding total samples
Containers ==
    {[shape |-> <<w, Len(bits)>>, total |-> 0, last |-> NoSample] :
        w \in WalkerCounts}
    \cup {[shape |-> <<w, Len(bits)>>, total |-> 1,
           last |-> EarlierSample(w)] : w \in WalkerCounts}

\* container.save_sample(accepted, occupancies, features, enthalpies)
save_sample(samples, result) ==
    [samples EXCEPT !.total = @ + 1, !.last = result]

\* run with an empty container starting from the all-zero occupancy
Sampler_run_initial_zeros(initial_occupancies, samples) ==
    IF initial_occupancies.ndim # 0
    THEN [error |-> "none", value |-> initial_occupancies]
    ELSE IF samples.total = 0
    THEN [error |-> "none",
          value |-> Np2D([w \in 1..samples.shape[1] |-> [s \in Sites |-> 0]])]
    ELSE [error |-> "none", value |-> Np2D(samples.last.occupancies)]

\* Sampler.run, the choice of the starting occupancies: the argument, or
\* the last saved occupancies; get_occupancy_chain()[-1] raises IndexError
\* on an empty chain
Sampler_run_initial(initial_occupancies, samples) ==
    IF initial_occupancies.ndim # 0
    THEN [error |-> "none", value |-> initial_occupancies]
    ELSE IF samples.total = 0
    THEN [error |-> "RuntimeError", value |-> NoArray]
    ELSE [error |-> "none", value |-> Np2D(samples.last.occupancies)]

\* Sampler.sample, the shape test: a one-dimensional array is reshaped to
\* one walker, any other mismatch raises
Sampler_sample_reshape(initial_occupancies, samples_shape) ==
    IF Shape(initial_occupancies) = samples_shape
    THEN [error |-> "none", occupancies |-> initial_occupancies.data]
    ELSE IF initial_occupancies.ndim = 1
    THEN [error |-> "none", occupancies |-> <<initial_occupancies.data>>]
    ELSE [error |-> "AttributeError", occupancies |-> <<>>]

\* one snapshot for every started interval of thin_by steps
NumSnapshots_ceil(nsteps, thin_by) == (nsteps + thin_by - 1) \div thin_by

\* range(nsteps // thin_by)
NumSnapshots(nsteps, thin_by) == nsteps \div thin_by

\* sampler = MetropolisSampler(ensemble, step_type, sublattices=...,
\* samples=container): the state after construction
InitSampler ==
    /\ occupancy = [s \in Sites |-> 0]
    /\ kernel = NoKernel
    /\ sampler \in {MetropolisSampler_init(step_type, beta) :
                       step_type \in DOMAIN valid_mcmc_ushers, beta \in Betas}
    /\ ret = <<>>
    /\ call = NoCall
    /\ counts = NoCounts
    /\ procCall = NoProcCall
    /\ processor = Processor_init
    /\ invocation = NoInvocation
    /\ run \in {[NoRun EXCEPT !.samples = c, !.start_total = c.total] :
                   c \in Containers}
    /\ ensemble = NoEnsemble

\* sampler.run(nsteps, initial_occupancies, thin_by) up to the first step:
\* lines 158-164 of run, then lines 113-132 of sample
Run ==
    /\ run.status = "idle"
    /\ \E nsteps \in 0..MaxNSteps, thin_by \in ThinBys,
          initial_occupancies \in InitialOccupancies :
          LET start == Sampler_run_initial(initial_occupancies, run.samples)
              shaped == Sampler_sample_reshape(start.value, run.samples.shape)
              called ==
                  [run EXCEPT !.nsteps = nsteps, !.thin_by = thin_by,
                              !.initial_occupancies = initial_occupancies]
              n == Len(shaped.occupancies)
          IN  run' =
                IF start.error # "none"
                THEN [called EXCEPT !.status = "error", !.error = start.error]
                ELSE IF shaped.error # "none"
                THEN [called EXCEPT !.status = "error", !.error = shaped.error]
                ELSE [called EXCEPT
                        !.status = IF NumSnapshots(nsteps, thin_by) = 0
                                   THEN "done" ELSE "sampling",
                        !.occupancies = shaped.occupancies,
                        !.accepted = [w \in 1..n |-> 0],
                        !.feature_blob =
                            [w \in 1..n |->
                                [f \in 1..Len(natural_parameters) |-> 0]],
                        !.enthalpies = [w \in 1..n |-> 0],
                        !.attempts = [w \in 1..n |-> 0]]
    /\ UNCHANGED <<occupancy, kernel, sampler, ret, call, counts, procCall,
                   ensemble, processor, invocation>>

\* one turn of the innermost loop of sample: _attempt_step on the row of
\* the next walker, and the four assignments of lines 137-140
AttemptWalker ==
    /\ run.status = "sampling"
    /\ run.inner < run.thin_by
    /\ LET w == run.i + 1
           last == w = Len(run.occupancies)
       IN  \E step \in propose_step_on(sampler.usher, SamplerSublattices,
                                       run.occupancies[w]) :
           \E r \in attempt_step(sampler, run.occupancies[w], step) :
              /\ run' = [run EXCEPT
                           !.occupancies[w] = r.ret[2],
                           !.accepted[w] = @ + (IF r.ret[1] THEN 1 ELSE 0),
                           !.feature_blob[w] = r.ret[3].data,
                           !.enthalpies[w] = r.ret[4].data[1],
                           !.attempts[w] = @ + 1,
                           !.rng = @ + r.draws,
                           !.i = IF last THEN 0 ELSE w,
                           !.inner = IF last THEN @ + 1 ELSE @]
              /\ processor' = AfterDeltaCorr(processor, step)
    /\ UNCHANGED <<occupancy, kernel, sampler, ret, call, counts, procCall,
                   ensemble, invocation>>

\* the yield of line 143: copies of the four arrays
Yield ==
    /\ run.status = "sampling"
    /\ run.inner = run.thin_by
    /\ run' = [run EXCEPT
                 !.status = "yielded",
                 !.yielded = @ + 1,
                 !.result = [accepted |-> run.accepted,
                             occupancies |-> run.occupancies,
                             features |-> run.feature_blob,
                             enthalpies |-> run.enthalpies]]
    /\ UNCHANGED <<occupancy, kernel, sampler, ret, call, counts, procCall,
                   ensemble, processor, invocation>>

\* the body of the loop of run, line 168, and the return to the generator
SaveSample ==
    /\ run.status = "yielded"
    /\ run' = [run EXCEPT
                 !.samples = save_sample(run.samples, run.result),
                 !.saved = @ + 1,
                 !.outer = @ + 1,
                 !.inner = 0,
                 !.status =
                     IF run.outer + 1 = NumSnapshots(run.nsteps, run.thin_by)
                     THEN "done" ELSE "sampling"]
    /\ UNCHANGED <<occupancy, kernel, sampler, ret, call, counts, procCall,
                   ensemble, processor, invocation>>

NextSampler ==
    \/ Run
    \/ AttemptWalker
    \/ Yield
    \/ SaveSample

SpecSampler == InitSampler /\ [][NextSampler]_vars

(***************************************************************************)
(* C1 -- for every valid occupancy and every list of flips, the result of  *)
(* delta_corr equals, entry by entry, the correlation vector of the        *)
(* occupancy with the flips applied minus that of the occupancy.           *)
(***************************************************************************)
C1_DeltaConsistency ==
    procCall.op = "delta_corr" =>
        procCall.result =
            VecSub(compute_correlation(ApplyStep(occupancy, procCall.flips)),
                   compute_correlation(occupancy))

\* two flips on different sites of one pair instance, with a non-zero change
C1_Witness ==
    /\ procCall.op = "delta_corr"
    /\ Len(procCall.flips) = 2
    /\ procCall.flips[1][1] = 0
    /\ procCall.flips[2][1] = 1
    /\ procCall.flips[1][2] # occupancy[0]
    /\ procCall.flips[2][2] # occupancy[1]
    /\ procCall.result[n_orbit_functions] # 0

(***************************************************************************)
(* Helpers of the claims about single_step.                                *)
(***************************************************************************)
KernelStepOps == {"Metropolis.single_step", "UniformlyRandom.single_step"}

\* the potential change of the last call, recomputed from the full
\* correlation vectors of the occupancy before and after the proposed step
LastDeltaFeatures ==
    VecSub(compute_correlation(ApplyStep(call.before, call.step)),
           compute_correlation(call.before))

LastDeltaPotential == Dot(natural_parameters, LastDeltaFeatures)

\* the pairs of the last step that name `site`
Naming(site) == SelectSeq(call.step, LAMBDA f : f[1] = site)

\* the occupancy is the one before the call with the step applied in order:
\* a named site holds the species of the last pair naming it, any other
\* site its previous species
StepCommitted ==
    \A site \in Sites :
        occupancy[site] =
            IF Naming(site) = <<>> THEN call.before[site]
            ELSE Naming(site)[Len(Naming(site))][2]

(***************************************************************************)
(* C2 -- Metropolis.single_step accepts iff the exponent                   *)
(* -beta*delta_potential + delta_bias is >= 0, or it is < 0 and log(u) is  *)
(* below it for the uniform draw u; random() is called exactly when the    *)
(* exponent is < 0.                                                        *)
(***************************************************************************)
C2_MetropolisAcceptance ==
    call.op = "Metropolis.single_step" =>
        LET exponent == (-kernel.beta) * LastDeltaPotential + call.delta_bias
        IN  /\ ret[1] = (\/ exponent >= 0
                         \/ exponent < 0 /\ call.logu < exponent)
            /\ call.draws = IF exponent < 0 THEN 1 ELSE 0

\* an uphill step accepted on a draw, after a step that needed no draw
C2_Witness ==
    /\ call.op = "Metropolis.single_step"
    /\ call.draws = 1
    /\ ret[1] = TRUE
    /\ counts.steps = 2
    /\ counts.draws = 1

(***************************************************************************)
(* C3 -- when the usher proposes the empty step, single_step returns       *)
(* accepted = False with zero feature and potential change, evaluates no   *)
(* feature change and leaves the occupancy unchanged.                      *)
(***************************************************************************)
C3_EmptyStepRejected ==
    (call.op \in KernelStepOps /\ call.step = <<>>) =>
        /\ ret[1] = FALSE
        /\ \A n \in 1..Len(ret[3].data) : ret[3].data[n] = 0
        /\ \A n \in 1..Len(ret[4].data) : ret[4].data[n] = 0
        /\ call.evals = 0
        /\ occupancy = call.before

(***************************************************************************)
(* C4 -- over any sequence of single_step calls of a kernel, the usher's   *)
(* update_aux_state has been called once for each step reported accepted   *)
(* and never for a step reported rejected.                                 *)
(***************************************************************************)
C4_AuxOncePerAccepted ==
    /\ kernel.status = "ready" => counts.aux = counts.accepted
    /\ call.op \in KernelStepOps => call.aux = IF ret[1] THEN 1 ELSE 0

\* a Metropolis kernel after one accepted and one rejected step
C4_Witness ==
    /\ kernel.class = "Metropolis"
    /\ counts.steps = 2
    /\ counts.accepted = 1
    /\ counts.aux = 1

(***************************************************************************)
(* C5 -- Metropolis.single_step (and MetropolisSampler._attempt_step)      *)
(* changes the occupancy only on acceptance: accepted, the occupancy is    *)
(* the prior one with the pairs of the step applied in order and the other *)
(* sites unchanged; rejected, it is the prior occupancy.                   *)
(***************************************************************************)
C5_OccupancyChangesOnlyOnAccept ==
    call.op \in {"Metropolis.single_step", "_attempt_step"} =>
        /\ ret[2] = occupancy
        /\ IF ret[1] THEN StepCommitted ELSE occupancy = call.before

\* a rejected swap of a Metropolis kernel
C5_Witness ==
    /\ call.op = "Metropolis.single_step"
    /\ Len(call.step) = 2
    /\ ret[1] = FALSE
    /\ occupancy = call.before
    /\ ApplyStep(call.before, call.step) # call.before

(***************************************************************************)
(* C6 -- every kernel's single_step returns the 4-tuple (accepted,         *)
(* occupancy, delta_features, delta_potential): the feature change vector  *)
(* third and the scalar potential change fourth, as Sampler.sample         *)
(* unpacks it.                                                             *)
(***************************************************************************)
C6_ReturnOrder ==
    call.op \in KernelStepOps =>
        /\ Len(ret) = 4
        /\ ret[3] = NpVector(LastDeltaFeatures)
        /\ ret[4] = NpScalar(LastDeltaPotential)

(***************************************************************************)
(* C7 -- UniformlyRandom.single_step returns accepted = True for every     *)
(* non-empty proposed step, whatever its potential change, and commits     *)
(* the step to the occupancy.                                              *)
(***************************************************************************)
C7_UniformlyRandomAccepts ==
    (call.op = "UniformlyRandom.single_step" /\ call.step # <<>>) =>
        /\ ret[1] = TRUE
        /\ StepCommitted
        /\ ret[2] = occupancy

\* an uphill step taken by the UniformlyRandom kernel
C7_Witness ==
    /\ call.op = "UniformlyRandom.single_step"
    /\ call.step # <<>>
    /\ LastDeltaPotential > 0
    /\ occupancy # call.before

(***************************************************************************)
(* C8 -- starting from a valid occupancy, after any number of single_step  *)
(* calls (either kernel, accepted or rejected) every entry of the          *)
(* occupancy is a species code of its site: 0 <= code < number of allowed  *)
(* species of the site.                                                    *)
(***************************************************************************)
C8_OccupancyInRange ==
    \A site \in Sites :
        /\ occupancy[site] >= 0
        /\ occupancy[site] < NumSpecies(site)

\* two accepted steps of a kernel, the last one writing the highest code
C8_Witness ==
    /\ call.op \in KernelStepOps
    /\ counts.accepted = 2
    /\ \E site \in Sites :
          /\ occupancy[site] = NumSpecies(site) - 1
          /\ call.before[site] # occupancy[site]

(***************************************************************************)
(* C9 -- a kernel constructed with bias_type and bias_kwargs at their      *)
(* defaults (None) is created, and every acceptance test it performs uses  *)
(* delta_bias = 0.                                                         *)
(***************************************************************************)
C9_DefaultBiasConstructs ==
    /\ (/\ kernel.status \in {"ready", "failed"}
        /\ kernel.step_type \in DOMAIN ALL_MCUSHERS
        /\ kernel.bias_type = "None") =>
            /\ kernel.status = "ready"
            /\ kernel.error = "none"
            /\ kernel.bias = "None"
    /\ (call.op = "Metropolis.single_step" /\ kernel.bias = "None") =>
            call.delta_bias = 0

(***************************************************************************)
(* C10 -- constructing a kernel or a MetropolisSampler with a step-type    *)
(* name that is not one of 'flip', 'swap' fails with ValueError: no usher  *)
(* is installed and no step is run.                                        *)
(***************************************************************************)
C10_InvalidStepTypeFails ==
    /\ (/\ kernel.status \in {"ready", "failed"}
        /\ kernel.step_type \notin {"flip", "swap"}) =>
            /\ kernel.status = "failed"
            /\ kernel.error = "ValueError"
            /\ kernel.usher = "None"
            /\ counts.steps = 0
    /\ (/\ sampler.status \in {"ready", "failed"}
        /\ sampler.step_type \notin {"flip", "swap", "None"}) =>
            /\ sampler.status = "failed"
            /\ sampler.error = "ValueError"
            /\ sampler.usher = "None"
            /\ counts.steps = 0

\* a MetropolisSampler refused for the step type 'multiflip'
C10_Witness ==
    /\ sampler.status = "failed"
    /\ sampler.step_type = "multiflip"
    /\ sampler.error = "ValueError"

(***************************************************************************)
(* Sublattice (ensemble/sublattice.py): the sublattices of a processor     *)
(* and the calls that restrict and release their sites.  The arrays sites  *)
(* and active_sites are sequences of site indices.                         *)
(***************************************************************************)
\* the elements of an array
Elems(a) == {a[n] : n \in DOMAIN a}

\* the elements of a set of integers in increasing order
RECURSIVE SortedArray(_)
SortedArray(S) ==
    IF S = {} THEN <<>>
    ELSE LET m == CHOOSE x \in S : \A y \in S : x <= y
         IN  <<m>> \o SortedArray(S \ {m})

\* processor.allowed_species: the species of each site of the supercell
allowed_species == bits

\* processor.unique_site_spaces: each distinct site space once
unique_site_spaces ==
    LET firsts == {n \in 1..Len(bits) : \A m \in 1..(n - 1) : bits[m] # bits[n]}
    IN  [k \in 1..Cardinality(firsts) |-> bits[SortedArray(firsts)[k]]]

\* Sublattice.__init__
Sublattice_init(site_space, sites) ==
    [site_space |-> site_space, sites |-> sites, active_sites |-> sites]

\* a site joins every sublattice whose site space is no longer than its own
get_sublattices_by_length ==
    [k \in 1..Len(unique_site_spaces) |->
        Sublattice_init(unique_site_spaces[k],
            SortedArray({i \in Sites :
                Len(allowed_species[i + 1]) >= Len(unique_site_spaces[k])}))]

\* get_sublattices(processor): for each site space the sites allowing
\* exactly its species
get_sublattices ==
    [k \in 1..Len(unique_site_spaces) |->
        Sublattice_init(unique_site_spaces[k],
            SortedArray({i \in Sites :
                allowed_species[i + 1] = unique_site_spaces[k]}))]

\* the difference taken the other way round
restricted_sites_swapped(sl) ==
    SortedArray(Elems(sl.active_sites) \ Elems(sl.sites))

\* Sublattice.restricted_sites: np.setdiff1d(sites, active_sites)
restricted_sites(sl) ==
    SortedArray(Elems(sl.sites) \ Elems(sl.active_sites))

\* every site of the supercell made active
reset_restricted_sites_all(sl) ==
    [sl EXCEPT !.active_sites = SortedArray(Sites)]

\* Sublattice.reset_restricted_sites
reset_restricted_sites(sl) == [sl EXCEPT !.active_sites = sl.sites]

\* Sublattice.restrict_sites(sites): the active sites not among sites
restrict_sites(sl, sites) ==
    [sl EXCEPT !.active_sites = SelectSeq(@, LAMBDA i : i \notin sites)]

\* the site selections handed to restrict_sites
SiteSelections == {sel \in SUBSET Sites : Cardinality(sel) <= 2}

\* Sublattice.is_active: some site is active
is_active(sl) == sl.active_sites # <<>>

\* Sublattice.as_dict: the keys site_space, sites and active_sites; a
\* species is written as its dictionary, an array as a list
as_dict(sl) ==
    [site_space |-> [n \in 1..Len(sl.site_space) |->
                        <<[element |-> sl.site_space[n]], n>>],
     sites |-> sl.sites,
     active_sites |-> sl.active_sites]

\* Sublattice.from_dict: rebuilds the site space and the sublattice, sets
\* active_sites, then reads d['restricted_sites'] (line 134) to assign it
\* to the property restricted_sites, which has no setter
from_dict(d) ==
    IF "restricted_sites" \notin DOMAIN d
    THEN [error |-> "KeyError", value |-> <<>>]
    ELSE [error |-> "AttributeError", value |-> <<>>]

\* ensemble.sublattices = get_sublattices(processor)
InitSublattice ==
    /\ occupancy = [s \in Sites |-> 0]
    /\ kernel = NoKernel
    /\ sampler = NoSampler
    /\ ret = <<>>
    /\ call = NoCall
    /\ counts = NoCounts
    /\ procCall = NoProcCall
    /\ processor = Processor_init
    /\ invocation = NoInvocation
    /\ run = NoRun
    /\ ensemble = [NoEnsemble EXCEPT !.sublattices = get_sublattices,
                                     !.op = "get_sublattices"]

\* ensemble.sublattices[k].restrict_sites(sites)
RestrictSites ==
    /\ ensemble.op # "none"
    /\ invocation.op = "none"
    /\ \E k \in DOMAIN ensemble.sublattices, sites \in SiteSelections :
          ensemble' =
              [sublattices |->
                   [ensemble.sublattices EXCEPT ![k] = restrict_sites(@, sites)],
               op |-> "restrict_sites", k |-> k, arg |-> sites,
               before |-> ensemble.sublattices]
    /\ UNCHANGED <<occupancy, kernel, sampler, ret, call, counts, procCall,
                   run, processor, invocation>>

\* ensemble.sublattices[k].reset_restricted_sites()
ResetRestrictedSites ==
    /\ ensemble.op # "none"
    /\ invocation.op = "none"
    /\ \E k \in DOMAIN ensemble.sublattices :
          ensemble' =
              [sublattices |->
                   [ensemble.sublattices EXCEPT
                       ![k] = reset_restricted_sites(@)],
               op |-> "reset_restricted_sites", k |-> k, arg |-> {},
               before |-> ensemble.sublattices]
    /\ UNCHANGED <<occupancy, kernel, sampler, ret, call, counts, procCall,
                   run, processor, invocation>>

\* Sublattice.from_dict(ensemble.sublattices[k].as_dict())
\* (a pure call: the behaviour is followed up to it)
FromDictCall ==
    /\ ensemble.op # "none"
    /\ invocation.op = "none"
    /\ \E k \in DOMAIN ensemble.sublattices :
          invocation' = [op |-> "from_dict",
                         args |-> <<ensemble.sublattices[k],
                                    as_dict(ensemble.sublattices[k])>>,
                         result |-> from_dict(as_dict(ensemble.sublattices[k]))]
    /\ UNCHANGED <<occupancy, kernel, sampler, ret, call, counts, procCall,
                   run, ensemble, processor>>

NextSublattice ==
    \/ RestrictSites
    \/ ResetRestrictedSites
    \/ FromDictCall

SpecSublattice == InitSublattice /\ [][NextSublattice]_vars

(***************************************************************************)
(* moca/utils.py: the occupancy statistics, the link counts and the        *)
(* integer grid.  Each is a pure function; a behaviour of SpecUtils makes  *)
(* one call and keeps its arguments and its result in invocation.  A       *)
(* result is a record of the exception raised ("none" for a return) and    *)
(* the value returned.                                                     *)
(***************************************************************************)
\* Python values whose type matters to the arithmetic on them
PyInt(n) == [type |-> "int", value |-> n]

PyNone == [type |-> "NoneType", value |-> 0]

\* a * b of Python: defined on integers, TypeError on None
PyMul(a, b) ==
    IF a.type = "int" /\ b.type = "int"
    THEN [error |-> "none", value |-> PyInt(a.value * b.value)]
    ELSE [error |-> "TypeError", value |-> PyNone]

\* a // b and a % b of Python for b # 0: the quotient rounded down and the
\* remainder with the sign of b
PyFloorDiv(a, b) == IF b > 0 THEN a \div b ELSE (0 - a) \div (0 - b)

PyMod(a, b) == IF b > 0 THEN a % b ELSE 0 - ((0 - a) % (0 - b))

\* the sublattice lists handed to the occupancy utilities: the sublattices
\* of the processor, and the same list with one sublattice left out
SublatticeLists ==
    {get_sublattices} \cup
    {SelectSeq(get_sublattices, LAMBDA sl : sl # get_sublattices[k]) :
        k \in DOMAIN get_sublattices}

\* the first sublattice whose sites contain s_id, 0 for sl_id = None
FirstSublattice(sublattices, s_id) ==
    LET containing == {i \in DOMAIN sublattices :
                          s_id \in Elems(sublattices[i].sites)}
    IN  IF containing = {} THEN 0
        ELSE CHOOSE i \in containing : \A j \in containing : i <= j

\* the position of list[i] of a Python list, 0 if i is out of range
PyIndex(list, i) ==
    IF 0 <= i /\ i < Len(list) THEN i + 1
    ELSE IF i < 0 /\ Len(list) + i >= 0 THEN Len(list) + i + 1
    ELSE 0

\* the site loop of occu_to_species_stat (lines 396-404) from site s_id on
RECURSIVE species_stat_loop(_, _, _, _)
species_stat_loop(sublattices, occu, s_id, species_stat) ==
    IF s_id \notin DOMAIN occu
    THEN [error |-> "none", value |-> species_stat]
    ELSE LET sl_id == FirstSublattice(sublattices, s_id)
         IN  IF sl_id = 0
             THEN [error |-> "ValueError", value |-> <<>>]
             ELSE LET sp == PyIndex(species_stat[sl_id], occu[s_id])
                  IN  IF sp = 0
                      THEN [error |-> "IndexError", value |-> <<>>]
                      ELSE species_stat_loop(sublattices, occu, s_id + 1,
                               [species_stat EXCEPT ![sl_id][sp] = @ + 1])

\* sum(row) of a list of integers
RECURSIVE PySum(_)
PySum(row) == IF row = <<>> THEN 0 ELSE row[1] + PySum(Tail(row))

\* occu_to_species_stat(sublattices, occupancy, normalize): the number of
\* sites of each sublattice occupied by each species code; a normalized
\* entry count / sum is the pair <<count, sum>>
occu_to_species_stat(sublattices, occu, normalize) ==
    LET zeros == [sl \in DOMAIN sublattices |->
                     [sp \in DOMAIN sublattices[sl].site_space |-> 0]]
        counted == species_stat_loop(sublattices, occu, 0, zeros)
    IN  IF counted.error # "none" \/ ~normalize THEN counted
        ELSE IF \E sl \in DOMAIN counted.value : PySum(counted.value[sl]) = 0
             THEN [error |-> "ZeroDivisionError", value |-> <<>>]
             ELSE [error |-> "none",
                   value |-> [sl \in DOMAIN counted.value |->
                       [sp \in DOMAIN counted.value[sl] |->
                           <<counted.value[sl][sp],
                             PySum(counted.value[sl])>>]]]

\* occu_to_species_list(sublattices, occupancy): the loop variables are
\* site_id and sp_id, the body reads s_id (lines 438 and 442), a name bound
\* nowhere in the function or the module, so the first iteration of the
\* site loop raises NameError; an empty occupancy returns the empty lists
occu_to_species_list(sublattices, occu) ==
    IF DOMAIN occu = {}
    THEN [error |-> "none",
          value |-> [sl \in DOMAIN sublattices |->
                        [sp \in DOMAIN sublattices[sl].site_space |-> <<>>]]]
    ELSE [error |-> "NameError", value |-> <<>>]

\* the number of ways of choosing m of n instances
RECURSIVE Binomial(_, _)
Binomial(n, m) ==
    IF m < 0 \/ m > n THEN 0
    ELSE IF m = 0 THEN 1
    ELSE Binomial(n - 1, m - 1) + Binomial(n - 1, m)

\* combinatorial_number(n, m): the function has a docstring and no
\* statement (lines 118-123), so every call returns None
combinatorial_number(n, m) == PyNone

\* An operation: the entries of operation['from'] and of operation['to']
\* in iteration order, each <<sl_id, sp_id, m>> for [sl_id][sp_id] = m.
\* One pass of get_n_links over two entry lists (lines 470-488, 491-509):
\* the first list multiplies by the ways of choosing m of the species
\* count and adds m to the sublattice's tally, the second multiplies by the
\* ways of choosing m of the tally and subtracts m; the pass stops at the
\* first multiplication that raises
RECURSIVE n_links_pass(_, _, _, _, _)
n_links_pass(comp_stat, first, second, n_links, n_to_flip_on_sl) ==
    IF first # <<>>
    THEN LET sl_id == first[1][1]
             sp_id == first[1][2]
             m     == first[1][3]
             n     == comp_stat[sl_id + 1][sp_id + 1]
             prod  == PyMul(n_links, combinatorial_number(n, m))
         IN  IF prod.error # "none" THEN prod
             ELSE n_links_pass(comp_stat, Tail(first), second, prod.value,
                      [n_to_flip_on_sl EXCEPT ![sl_id + 1] = @ + m])
    ELSE IF second # <<>>
    THEN LET sl_id == second[1][1]
             m     == second[1][3]
             n     == n_to_flip_on_sl[sl_id + 1]
             prod  == PyMul(n_links, combinatorial_number(n, m))
         IN  IF prod.error # "none" THEN prod
             ELSE n_links_pass(comp_stat, first, Tail(second), prod.value,
                      [n_to_flip_on_sl EXCEPT ![sl_id + 1] = @ - m])
    ELSE IF \E sl \in DOMAIN n_to_flip_on_sl : n_to_flip_on_sl[sl] # 0
    THEN [error |-> "ValueError", value |-> PyNone]
    ELSE [error |-> "none", value |-> n_links]

\* the operation loop of get_n_links from operation op_id on
RECURSIVE n_links_loop(_, _, _, _)
n_links_loop(comp_stat, operations, op_id, n_links) ==
    IF op_id > Len(operations)
    THEN [error |-> "none", value |-> n_links]
    ELSE LET zeros == [sl \in DOMAIN comp_stat |-> 0]
             operation == operations[op_id]
             n_forward == n_links_pass(comp_stat, operation.from,
                                       operation.to, PyInt(1), zeros)
             n_reverse == n_links_pass(comp_stat, operation.to,
                                       operation.from, PyInt(1), zeros)
         IN  IF n_forward.error # "none"
             THEN [error |-> n_forward.error, value |-> <<>>]
             ELSE IF n_reverse.error # "none"
             THEN [error |-> n_reverse.error, value |-> <<>>]
             ELSE n_links_loop(comp_stat, operations, op_id + 1,
                      [n_links EXCEPT ![2 * op_id - 1] = n_forward.value,
                                      ![2 * op_id] = n_reverse.value])

\* get_n_links(comp_stat, operations): n_links[2*i] the forward and
\* n_links[2*i+1] the reverse count of operation i
get_n_links(comp_stat, operations) ==
    n_links_loop(comp_stat, operations, 1,
                 [i \in 1..(2 * Len(operations)) |-> PyInt(0)])

\* the operations handed to get_n_links: one species of a sublattice
\* turned into another (m sites of it), the empty operation, and an
\* operation whose two sides do not match
FlipOperations ==
    {[from |-> << <<sl - 1, a - 1, m>> >>, to |-> << <<sl - 1, b - 1, m2>> >>] :
        <<sl, a, b, m, m2>> \in
            {t \in (DOMAIN get_sublattices) \X (1..MaxNumSpecies)
                   \X (1..MaxNumSpecies) \X (1..2) \X (1..2) :
                /\ t[2] \in DOMAIN get_sublattices[t[1]].site_space
                /\ t[3] \in DOMAIN get_sublattices[t[1]].site_space
                /\ t[2] # t[3]}}
    \cup {[from |-> <<>>, to |-> <<>>]}

\* operation lists of length 0 to 2
OperationLists ==
    {<<>>} \cup {<<op>> : op \in FlipOperations}
           \cup {<<[from |-> <<>>, to |-> <<>>], op>> : op \in FlipOperations}

\* the two sides of an operation move the same number of sites on every
\* sublattice
Balanced(operation) ==
    \A sl \in 0..(Len(get_sublattices) - 1) :
        PySum([n \in DOMAIN operation.from |->
                  IF operation.from[n][1] = sl THEN operation.from[n][3] ELSE 0])
        = PySum([n \in DOMAIN operation.to |->
                  IF operation.to[n][1] = sl THEN operation.to[n][3] ELSE 0])

\* list[:-1] of Python
DropLast(list) == SubSeq(list, 1, Len(list) - 1)

\* get_integer_grid for len(subspc_normv) >= 1 (lines 151-177) and the
\* loop of lines 167-171 over val from lo up to hi - 1 (range(lo, hi));
\* a point is the list of its coordinates
RECURSIVE integer_grid(_, _, _), integer_grid_vals(_, _, _, _, _)
integer_grid(subspc_normv, right_side, limiters) ==
    LET d == Len(subspc_normv)
        k == subspc_normv[d]
        last == limiters[Len(limiters)]
    IN  IF d = 1
        THEN IF k # 0
             THEN IF /\ PyMod(right_side, k) = 0
                     /\ PyFloorDiv(right_side, k) >= last[1]
                     /\ PyFloorDiv(right_side, k) <= last[2]
                  THEN << <<PyFloorDiv(right_side, k)>> >>
                  ELSE <<>>
             ELSE IF right_side = 0 THEN << <<0>>, <<1>> >> ELSE <<>>
        ELSE IF k # 0
             THEN integer_grid_vals(subspc_normv, right_side, limiters,
                                    last[1], last[2] + 1)
             ELSE LET partial_grids ==
                          integer_grid(DropLast(subspc_normv), right_side,
                                       DropLast(limiters))
                  IN  [n \in 1..(2 * Len(partial_grids)) |->
                          Append(partial_grids[(n + 1) \div 2], (n + 1) % 2)]

integer_grid_vals(subspc_normv, right_side, limiters, lo, hi) ==
    IF lo >= hi THEN <<>>
    ELSE LET k == subspc_normv[Len(subspc_normv)]
             partial_grids ==
                 integer_grid(DropLast(subspc_normv), right_side - lo * k,
                              DropLast(limiters))
         IN  [n \in DOMAIN partial_grids |-> Append(partial_grids[n], lo)]
             \o integer_grid_vals(subspc_normv, right_side, limiters,
                                  lo + 1, hi)

\* the upper bound of every dimension left out of the enumeration
get_integer_grid_open(subspc_normv, right_side, limiters) ==
    IF Len(subspc_normv) < 1
    THEN [error |-> "ValueError", value |-> <<>>]
    ELSE [error |-> "none",
          value |-> integer_grid(subspc_normv, right_side,
                        [i \in DOMAIN limiters |->
                            <<limiters[i][1], limiters[i][2] - 1>>])]

\* get_integer_grid(subspc_normv, right_side, limiters) with limiters given
get_integer_grid(subspc_normv, right_side, limiters) ==
    IF Len(subspc_normv) < 1
    THEN [error |-> "ValueError", value |-> <<>>]
    ELSE [error |-> "none",
          value |-> integer_grid(subspc_normv, right_side, limiters)]

\* limiters = None: every dimension is enumerated over (-7, 8)
default_limiters(subspc_normv) == [i \in DOMAIN subspc_normv |-> <<-7, 8>>]

\* the normal vectors, right-hand sides and limiters of the calls
MaxDim == 2

NormalVectors == UNION {[1..d -> 0..2] : d \in 0..MaxDim}

RightSides == -2..4

LimiterChoices == {<<0, 2>>, <<-1, 1>>, <<1, 0>>}

LimitersFor(subspc_normv) ==
    [DOMAIN subspc_normv -> LimiterChoices] \cup {default_limiters(subspc_normv)}

\* the utilities are called on an occupancy of the supercell
InitUtils ==
    /\ occupancy \in ValidOccupancies
    /\ kernel = NoKernel
    /\ sampler = NoSampler
    /\ ret = <<>>
    /\ call = NoCall
    /\ counts = NoCounts
    /\ procCall = NoProcCall
    /\ processor = Processor_init
    /\ invocation = NoInvocation
    /\ run = NoRun
    /\ ensemble = NoEnsemble

\* occu_to_species_stat(sublattices, occupancy, normalize)
OccuToSpeciesStatCall ==
    /\ invocation.op = "none"
    /\ \E sublattices \in SublatticeLists, normalize \in BOOLEAN :
          invocation' =
              [op |-> "occu_to_species_stat",
               args |-> <<sublattices, occupancy, normalize>>,
               result |-> occu_to_species_stat(sublattices, occupancy,
                                               normalize)]
    /\ UNCHANGED <<occupancy, kernel, sampler, ret, call, counts, procCall,
                   run, ensemble, processor>>

\* occu_to_species_list(sublattices, occupancy)
OccuToSpeciesListCall ==
    /\ invocation.op = "none"
    /\ \E sublattices \in SublatticeLists :
          invocation' =
              [op |-> "occu_to_species_list",
               args |-> <<sublattices, occupancy>>,
               result |-> occu_to_species_list(sublattices, occupancy)]
    /\ UNCHANGED <<occupancy, kernel, sampler, ret, call, counts, procCall,
                   run, ensemble, processor>>

\* combinatorial_number(n, m)
CombinatorialNumberCall ==
    /\ invocation.op = "none"
    /\ \E n \in 0..3, m \in 0..3 :
          invocation' = [op |-> "combinatorial_number", args |-> <<n, m>>,
                         result |-> combinatorial_number(n, m)]
    /\ UNCHANGED <<occupancy, kernel, sampler, ret, call, counts, procCall,
                   run, ensemble, processor>>

\* get_n_links(comp_stat, operations) on the species statistics of the
\* occupancy
GetNLinksCall ==
    /\ invocation.op = "none"
    /\ \E operations \in OperationLists :
          LET comp_stat ==
                  occu_to_species_stat(get_sublattices, occupancy, FALSE).value
          IN  invocation' =
                  [op |-> "get_n_links", args |-> <<comp_stat, operations>>,
                   result |-> get_n_links(comp_stat, operations)]
    /\ UNCHANGED <<occupancy, kernel, sampler, ret, call, counts, procCall,
                   run, ensemble, processor>>

\* get_integer_grid(subspc_normv, right_side, limiters)
GetIntegerGridCall ==
    /\ invocation.op = "none"
    /\ \E subspc_normv \in NormalVectors, right_side \in RightSides :
          \E limiters \in LimitersFor(subspc_normv) :
              invocation' =
                  [op |-> "get_integer_grid",
                   args |-> <<subspc_normv, right_side, limiters>>,
                   result |-> get_integer_grid(subspc_normv, right_side,
                                               limiters)]
    /\ UNCHANGED <<occupancy, kernel, sampler, ret, call, counts, procCall,
                   run, ensemble, processor>>

NextUtils ==
    \/ OccuToSpeciesStatCall
    \/ OccuToSpeciesListCall
    \/ CombinatorialNumberCall
    \/ GetNLinksCall
    \/ GetIntegerGridCall

SpecUtils == InitUtils /\ [][NextUtils]_vars

(***************************************************************************)
(* The setters of MCKernel (sampler/kernel.py, lines 78-102).  An object   *)
(* handed to a setter is its __name__ (a class or a function has one, an   *)
(* instance has none); the attributes _usher and _bias of the kernel hold  *)
(* the name of the object they refer to.                                   *)
(***************************************************************************)
\* valid_bias of a kernel derived from MCKernel with a bias registered
DerivedBias == {"MCBias"}

\* the kernels of the module and a derived kernel of every configuration
SetterKernels ==
    ReadyKernels \cup {[k EXCEPT !.class = "Derived"] : k \in ReadyKernels}

\* self.valid_mcushers and self.valid_bias: the class attributes, of which
\* the setters test the keys
valid_mcushers(k) == DOMAIN ALL_MCUSHERS

valid_bias(k) == IF k.class \in KernelClasses THEN ALL_BIAS ELSE DerivedBias

\* the objects assigned: classes and functions by name, and an instance
AssignedObjects ==
    {[has_name |-> TRUE, name |-> n] :
        n \in {"Flipper", "Swapper", "flip", "MCBias", "Other"}}
    \cup {[has_name |-> FALSE, name |-> "instance"]}

\* kernel.mcusher = usher (lines 83-89): the kernel after the assignment
\* and the exception raised
mcusher_setter(k, usher) ==
    IF ~usher.has_name
    THEN [error |-> "AttributeError", kernel |-> k]
    ELSE IF usher.name \notin valid_mcushers(k)
    THEN [error |-> "ValueError", kernel |-> k]
    ELSE [error |-> "none", kernel |-> [k EXCEPT !.usher = usher.name]]

\* kernel.bias = bias (lines 96-102): the accepted object is stored in
\* _usher (line 102), _bias is not assigned
bias_setter(k, bias) ==
    IF ~bias.has_name
    THEN [error |-> "AttributeError", kernel |-> k]
    ELSE IF bias.name \notin valid_bias(k)
    THEN [error |-> "ValueError", kernel |-> k]
    ELSE [error |-> "none", kernel |-> [k EXCEPT !.usher = bias.name]]

\* kernel.mcusher and kernel.bias (lines 78-81, 91-94)
mcusher_getter(k) == k.usher

bias_getter(k) == k.bias

InitSetters ==
    /\ occupancy = [s \in Sites |-> 0]
    /\ kernel \in SetterKernels
    /\ sampler = NoSampler
    /\ ret = <<>>
    /\ call = NoCall
    /\ counts = NoCounts
    /\ procCall = NoProcCall
    /\ processor = Processor_init
    /\ invocation = NoInvocation
    /\ run = NoRun
    /\ ensemble = NoEnsemble

\* kernel.mcusher = usher
SetMcusher ==
    /\ invocation.op = "none"
    /\ \E usher \in AssignedObjects :
          /\ kernel' = mcusher_setter(kernel, usher).kernel
          /\ invocation' = [op |-> "mcusher.setter", args |-> <<usher, kernel>>,
                            result |-> mcusher_setter(kernel, usher).error]
    /\ UNCHANGED <<occupancy, sampler, ret, call, counts, procCall, run,
                   ensemble, processor>>

\* kernel.bias = bias
SetBias ==
    /\ invocation.op = "none"
    /\ \E bias \in AssignedObjects :
          /\ kernel' = bias_setter(kernel, bias).kernel
          /\ invocation' = [op |-> "bias.setter", args |-> <<bias, kernel>>,
                            result |-> bias_setter(kernel, bias).error]
    /\ UNCHANGED <<occupancy, sampler, ret, call, counts, procCall, run,
                   ensemble, processor>>

NextSetters ==
    \/ SetMcusher
    \/ SetBias

SpecSetters == InitSetters /\ [][NextSetters]_vars

(***************************************************************************)
(* Helper state functions of the claims about Sampler.run.                 *)
(***************************************************************************)
\* the walkers of the run under way
Walkers == 1..Len(run.occupancies)

\* no walker has attempted a step
NoStepAttempted == \A w \in DOMAIN run.attempts : run.attempts[w] = 0

\* the run was called: its arguments are bound
RunCalled == run.status # "idle"

(***************************************************************************)
(* C11 -- run called with initial_occupancies=None on a container without  *)
(* a saved sample ends with RuntimeError: no step is attempted, no sample  *)
(* is saved and no occupancy is put in place of the missing one.           *)
(***************************************************************************)
C11_ResumeFromEmptyRaises ==
    (RunCalled /\ run.initial_occupancies = NoArray /\ run.start_total = 0)
    => /\ run.status = "error"
       /\ run.error = "RuntimeError"
       /\ NoStepAttempted
       /\ run.samples.total = 0
       /\ run.saved = 0
       /\ run.occupancies = <<>>

C11_Witness ==
    /\ run.status = "error"
    /\ run.error = "RuntimeError"
    /\ run.initial_occupancies = NoArray
    /\ run.nsteps > 0

(***************************************************************************)
(* C12 -- sample yields floor(nsteps / thin_by) snapshots; when the k-th   *)
(* is yielded every walker has attempted exactly k * thin_by steps; the    *)
(* nsteps mod thin_by steps left over are never attempted; run saves one   *)
(* sample for each snapshot yielded.                                       *)
(***************************************************************************)
C12_ThinnedSnapshots ==
    (run.status \in {"sampling", "yielded", "done"})
    => /\ run.yielded <= run.nsteps \div run.thin_by
       /\ \A w \in Walkers :
             /\ run.attempts[w] <= (run.nsteps \div run.thin_by) * run.thin_by
             /\ run.status \in {"yielded", "done"}
                => run.attempts[w] = run.yielded * run.thin_by
       /\ run.status = "done" => run.yielded = run.nsteps \div run.thin_by
       /\ run.saved = IF run.status = "yielded" THEN run.yielded - 1
                      ELSE run.yielded
       /\ run.samples.total = run.start_total + run.saved
       /\ run.status = "yielded" => run.result.occupancies = run.occupancies

C12_Witness ==
    /\ run.status = "done"
    /\ run.nsteps % run.thin_by # 0
    /\ run.yielded >= 1
    /\ Len(run.occupancies) = 2

(***************************************************************************)
(* C13 -- in every sample the run saves, the feature entry of each walker  *)
(* is the feature vector of that walker's occupancy in the same sample,    *)
(* and the potential entry is the dot product of the natural parameters    *)
(* with that feature vector.                                               *)
(***************************************************************************)
C13_SavedFeaturesMatchOccupancy ==
    run.saved >= 1
    => \A w \in DOMAIN run.samples.last.occupancies :
          LET sample == run.samples.last
          IN  /\ sample.features[w] =
                     compute_feature_vector(sample.occupancies[w])
              /\ sample.enthalpies[w] =
                     Dot(natural_parameters, sample.features[w])

(***************************************************************************)
(* C15 -- a step of walker i leaves the occupancy and the pseudorandom     *)
(* stream of every other walker j as they were.                            *)
(***************************************************************************)
\* the stream a walker draws from: random() of the module random, seeded
\* once by the sampler; its state is the number of draws made so far
StreamOf(r, j) == r.rng

WalkerStepped(w) ==
    /\ run.status = "sampling"
    /\ run'.status = "sampling"
    /\ run'.attempts[w] = run.attempts[w] + 1

C15_WalkersIndependent ==
    [][\A w \in Walkers :
          WalkerStepped(w)
          => \A j \in Walkers \ {w} :
                /\ run'.occupancies[j] = run.occupancies[j]
                /\ StreamOf(run', j) = StreamOf(run, j)]_vars

(***************************************************************************)
(* C16 -- run given initial occupancies whose shape differs from the       *)
(* shape of the container (walker count or site count) ends with an error  *)
(* and no step is attempted.                                               *)
(***************************************************************************)
\* walker count and site count of the occupancies handed to run: a
\* one-dimensional array is the occupancy of one walker
GivenShape(a) == IF a.ndim = 1 THEN <<1>> \o Shape(a) ELSE Shape(a)

C16_ShapeMismatchFails ==
    (RunCalled /\ run.initial_occupancies # NoArray
       /\ GivenShape(run.initial_occupancies) # run.samples.shape)
    => /\ run.status = "error"
       /\ NoStepAttempted

(***************************************************************************)
(* C17 -- a single_step whose proposed step assigns to a site a value      *)
(* outside the species codes of that site changes no entry of the          *)
(* occupancy.                                                              *)
(***************************************************************************)
StepOutOfRange(step) ==
    \E n \in 1..Len(step) :
        step[n][2] \notin 0..(NumSpecies(step[n][1]) - 1)

C17_OutOfRangeStepNotWritten ==
    (call.op \in KernelStepOps /\ StepOutOfRange(call.step))
    => occupancy = call.before

(***************************************************************************)
(* Helper state functions of the claims about sublattices.                 *)
(***************************************************************************)
\* the sublattice the last call was made on, after and before the call
Called == ensemble.sublattices[ensemble.k]
CalledBefore == ensemble.before[ensemble.k]

(***************************************************************************)
(* C18 -- the site sets of the sublattices of a processor are pairwise     *)
(* disjoint and their union is the range of all site indices, at           *)
(* construction and after any restrict and reset calls.                    *)
(***************************************************************************)
C18_SublatticePartition ==
    ensemble.op # "none"
    => LET sls == ensemble.sublattices
       IN  /\ \A k \in DOMAIN sls, l \in DOMAIN sls :
                 k # l => Elems(sls[k].sites) \cap Elems(sls[l].sites) = {}
           /\ UNION {Elems(sls[k].sites) : k \in DOMAIN sls} = Sites
           /\ \A k \in DOMAIN sls : Len(sls[k].sites) > 0

C18_Witness ==
    /\ ensemble.op = "restrict_sites"
    /\ Len(ensemble.sublattices) >= 2
    /\ \A k \in DOMAIN ensemble.sublattices :
          ensemble.sublattices[k].active_sites # ensemble.sublattices[k].sites

(***************************************************************************)
(* C19 -- after any sequence of restrict and reset calls on a sublattice   *)
(* its active sites are sites of it, its restricted sites are its sites    *)
(* that are not active, and its sites are those it was constructed with.   *)
(***************************************************************************)
C19_ActiveWithinSites ==
    \A k \in DOMAIN ensemble.sublattices :
        LET sl == ensemble.sublattices[k]
        IN  /\ Elems(sl.active_sites) \subseteq Elems(sl.sites)
            /\ Elems(restricted_sites(sl)) =
                   {s \in Sites : s \in Elems(sl.sites)
                                  /\ s \notin Elems(sl.active_sites)}
            /\ sl.sites = get_sublattices[k].sites

C19_Witness ==
    /\ ensemble.op = "reset_restricted_sites"
    /\ CalledBefore.active_sites # CalledBefore.sites
    /\ \E k \in DOMAIN ensemble.sublattices :
          restricted_sites(ensemble.sublattices[k]) # <<>>

(***************************************************************************)
(* C20 as stated -- restrict_sites(S) removes every site of S from the     *)
(* active sites, every site of S is then among the restricted sites, and   *)
(* every other active site stays active; a second call with the same S     *)
(* changes nothing; after reset_restricted_sites the active sites are the  *)
(* sites and no site is restricted.                                        *)
(***************************************************************************)
C20_Original ==
    /\ ensemble.op = "restrict_sites"
       => /\ \A s \in ensemble.arg :
                /\ s \notin Elems(Called.active_sites)
                /\ s \in Elems(restricted_sites(Called))
          /\ \A s \in Elems(CalledBefore.active_sites) \ ensemble.arg :
                s \in Elems(Called.active_sites)
          /\ restrict_sites(Called, ensemble.arg) = Called
    /\ ensemble.op = "reset_restricted_sites"
       => /\ Called.active_sites = Called.sites
          /\ restricted_sites(Called) = <<>>

(***************************************************************************)
(* C20 -- restrict_sites(S) removes every site of S from the active        *)
(* sites, every site of S that is a site of the sublattice is then among   *)
(* the restricted sites, and every other active site stays active; a       *)
(* second call with the same S changes nothing; after                      *)
(* reset_restricted_sites the active sites are the sites and no site is    *)
(* restricted.                                                             *)
(***************************************************************************)
C20_RestrictThenReset ==
    /\ ensemble.op = "restrict_sites"
       => /\ \A s \in ensemble.arg :
                /\ s \notin Elems(Called.active_sites)
                /\ s \in Elems(Called.sites)
                   => s \in Elems(restricted_sites(Called))
          /\ \A s \in Elems(CalledBefore.active_sites) \ ensemble.arg :
                s \in Elems(Called.active_sites)
          /\ restrict_sites(Called, ensemble.arg) = Called
    /\ ensemble.op = "reset_restricted_sites"
       => /\ Called.active_sites = Called.sites
          /\ restricted_sites(Called) = <<>>

C20_Witness ==
    /\ ensemble.op = "restrict_sites"
    /\ \E s \in ensemble.arg : s \in Elems(CalledBefore.active_sites)
    /\ \E s \in ensemble.arg : s \notin Elems(Called.sites)
    /\ Called.active_sites # <<>>

(***************************************************************************)
(* C21 -- for every sublattice, with any split of its sites into active    *)
(* and restricted, from_dict(as_dict()) succeeds and gives a sublattice    *)
(* with the same site_space, sites and active_sites, whose as_dict is the  *)
(* dictionary it was built from.                                           *)
(***************************************************************************)
C21_RoundTrip ==
    invocation.op = "from_dict"
    => /\ invocation.result.error = "none"
       /\ LET sl == invocation.args[1]
              back == invocation.result.value
          IN  /\ back.site_space = sl.site_space
              /\ back.sites = sl.sites
              /\ back.active_sites = sl.active_sites
              /\ as_dict(back) = invocation.args[2]

(***************************************************************************)
(* C22 -- a sublattice whose site space allows a single species has no     *)
(* active site from construction and its restricted sites are its sites;   *)
(* a sublattice whose sites have all been restricted is not active.        *)
(***************************************************************************)
C22_SingleSpeciesInactive ==
    \A k \in DOMAIN ensemble.sublattices :
        LET sl == ensemble.sublattices[k]
        IN  /\ Len(sl.site_space) = 1
               => /\ sl.active_sites = <<>>
                  /\ restricted_sites(sl) = sl.sites
            /\ restricted_sites(sl) = sl.sites => ~is_active(sl)

(***************************************************************************)
(* Helper state functions of the claims about direct processor calls.      *)
(***************************************************************************)
\* the occupancy after the first n flips of the last call
AfterFlips(n) == ApplyStep(occupancy, SubSeq(procCall.flips, 1, n))

\* the delta of the single flip n of the last call, evaluated on the
\* occupancy the flips before it lead to
SingleFlipDelta(n) == delta_corr(<<procCall.flips[n]>>, AfterFlips(n - 1))

ZeroVector == [n \in 1..n_orbit_functions |-> 0]

C24_PropertyAndChange ==
    /\ procCall.op = "compute_property"
       => procCall.result =
              size * SeqSum([n \in 1..n_orbit_functions |->
                               compute_correlation(occupancy)[n] * ecis[n]])
    /\ procCall.op = "compute_property_change"
       => procCall.result =
              compute_property(ApplyStep(occupancy, procCall.flips))
              - compute_property(occupancy)

C24_Witness ==
    /\ procCall.op = "compute_property_change"
    /\ Len(procCall.flips) = 2
    /\ procCall.result # 0

(***************************************************************************)
(* C25 -- the delta of a step [f1, ..., fk] is the sum over i of the       *)
(* delta of the single flip fi on the occupancy after f1..f(i-1); a step   *)
(* that flips a site and flips it back gives the zero vector, and a step   *)
(* that repeats one flip gives the delta of the single flip.               *)
(***************************************************************************)
C25_SequentialComposition ==
    procCall.op = "delta_corr"
    => LET flips == procCall.flips
       IN  /\ \A n \in 1..n_orbit_functions :
                 procCall.result[n] =
                     SeqSum([i \in 1..Len(flips) |-> SingleFlipDelta(i)[n]])
           /\ (Len(flips) = 2 /\ flips[1][1] = flips[2][1]
                 /\ flips[2][2] = occupancy[flips[1][1]])
              => procCall.result = ZeroVector
           /\ (Len(flips) = 2 /\ flips[1] = flips[2])
              => procCall.result = delta_corr(<<flips[1]>>, occupancy)

C25_Witness ==
    /\ procCall.op = "delta_corr"
    /\ Len(procCall.flips) = 2
    /\ procCall.flips[1][1] = procCall.flips[2][1]
    /\ procCall.flips[2][2] = occupancy[procCall.flips[1][1]]
    /\ procCall.flips[1][2] # occupancy[procCall.flips[1][1]]
    /\ SingleFlipDelta(1) # ZeroVector

(***************************************************************************)
(* C26 -- after construction orbits_by_sites[s] holds, for every orbit     *)
(* with an instance containing s, exactly one entry, whose instances are   *)
(* the orbit's site-index tuples containing s and whose ratio is the       *)
(* number of instances of the orbit over the number containing s; it       *)
(* holds no entry for an orbit none of whose instances contains s; no      *)
(* evaluation call changes orbit_list or orbits_by_sites.                  *)
(***************************************************************************)
\* the instances of an orbit that contain site s
Containing(orbit, s) ==
    SelectSeq(orbit.inds, LAMBDA t : s \in {t[j] : j \in 1..Len(t)})

\* the entries orbits_by_sites holds for site s and the orbit
EntriesFor(s, orbit) ==
    IF s \in DOMAIN processor.orbits_by_sites
    THEN SelectSeq(processor.orbits_by_sites[s],
                   LAMBDA e : e.bit_id = orbit.bit_id)
    ELSE <<>>

C26_OrbitsBySites ==
    /\ \A o \in DOMAIN processor.orbit_list, s \in Sites :
          LET orbit == processor.orbit_list[o]
              entries == EntriesFor(s, orbit)
          IN  IF Containing(orbit, s) # <<>>
              THEN /\ Len(entries) = 1
                   /\ entries[1].inds = Containing(orbit, s)
                   /\ entries[1].ratio[1] * Len(Containing(orbit, s))
                          = Len(orbit.inds) * entries[1].ratio[2]
              ELSE entries = <<>>
    /\ processor.orbit_list = Processor_init.orbit_list
    /\ processor.orbits_by_sites = Processor_init.orbits_by_sites

(***************************************************************************)
(* C27: for sublattices that partition the sites and a valid occupancy,    *)
(* occu_to_species_list returns for every sublattice and species code the  *)
(* list of the sublattice's sites occupied by that code, each site once,   *)
(* as long as the count occu_to_species_stat returns; when a site belongs  *)
(* to no sublattice both functions raise ValueError.                       *)
(***************************************************************************)
\* every site is in exactly one of the sublattices
PartitionSites(sublattices) ==
    \A s \in Sites :
        Cardinality({i \in DOMAIN sublattices :
                        s \in Elems(sublattices[i].sites)}) = 1

C27_SpeciesList ==
    invocation.op = "occu_to_species_list" =>
        LET sublattices == invocation.args[1]
            occu == invocation.args[2]
            stat == occu_to_species_stat(sublattices, occu, FALSE)
            list == invocation.result
        IN  IF PartitionSites(sublattices)
            THEN /\ list.error = "none"
                 /\ stat.error = "none"
                 /\ \A sl \in DOMAIN sublattices :
                      \A sp \in DOMAIN sublattices[sl].site_space :
                        /\ list.value[sl][sp] =
                             SelectSeq(sublattices[sl].sites,
                                       LAMBDA s : occu[s] = sp - 1)
                        /\ Len(list.value[sl][sp]) = stat.value[sl][sp]
            ELSE /\ list.error = "ValueError"
                 /\ stat.error = "ValueError"

\* the part of C27 about occu_to_species_stat alone: the counts of a
\* partition, ValueError for a site in no sublattice
C27_StatCounts ==
    invocation.op = "occu_to_species_stat" /\ ~invocation.args[3] =>
        LET sublattices == invocation.args[1]
            occu == invocation.args[2]
            stat == invocation.result
        IN  IF PartitionSites(sublattices)
            THEN /\ stat.error = "none"
                 /\ \A sl \in DOMAIN sublattices :
                      \A sp \in DOMAIN sublattices[sl].site_space :
                        stat.value[sl][sp] =
                            Cardinality({s \in Elems(sublattices[sl].sites) :
                                            occu[s] = sp - 1})
            ELSE stat.error = "ValueError"

(***************************************************************************)
(* C28: combinatorial_number(n, m) returns the binomial coefficient, the   *)
(* number of ways of choosing m of n instances, and get_n_links returns    *)
(* for every operation an integer forward count at index 2*i and an        *)
(* integer reverse count at index 2*i+1.                                   *)
(***************************************************************************)
C28_BinomialLinks ==
    /\ invocation.op = "combinatorial_number" =>
          invocation.result =
              PyInt(Binomial(invocation.args[1], invocation.args[2]))
    /\ invocation.op = "get_n_links"
       /\ (\A i \in DOMAIN invocation.args[2] :
              Balanced(invocation.args[2][i])) =>
          /\ invocation.result.error = "none"
          /\ Len(invocation.result.value) = 2 * Len(invocation.args[2])
          /\ \A i \in DOMAIN invocation.result.value :
                invocation.result.value[i].type = "int"

(***************************************************************************)
(* C29: for a normal vector of positive integers, a right-hand side and    *)
(* limiters (lower, upper) for each dimension, get_integer_grid returns    *)
(* the integer points x with lower_i <= x_i <= upper_i for every i and     *)
(* dot(normal, x) = right_side, each listed once; with an empty normal     *)
(* vector it raises ValueError.                                            *)
(***************************************************************************)
\* the integer points within the limiters on the hyperplane
HyperplanePoints(subspc_normv, right_side, limiters) ==
    {x \in [DOMAIN subspc_normv -> -7..8] :
        /\ \A i \in DOMAIN x : limiters[i][1] <= x[i] /\ x[i] <= limiters[i][2]
        /\ PySum([i \in DOMAIN x |-> subspc_normv[i] * x[i]]) = right_side}

C29_IntegerGrid ==
    invocation.op = "get_integer_grid" =>
        LET subspc_normv == invocation.args[1]
            right_side == invocation.args[2]
            limiters == invocation.args[3]
            grids == invocation.result
        IN  IF subspc_normv = <<>>
            THEN grids.error = "ValueError"
            ELSE (\A i \in DOMAIN subspc_normv : subspc_normv[i] > 0) =>
                    /\ grids.error = "none"
                    /\ Elems(grids.value) =
                           HyperplanePoints(subspc_normv, right_side, limiters)
                    /\ Len(grids.value) = Cardinality(Elems(grids.value))

\* a call with a two-dimensional positive normal vector that returned
\* several points
C29_Witness ==
    /\ invocation.op = "get_integer_grid"
    /\ Len(invocation.args[1]) = 2
    /\ \A i \in DOMAIN invocation.args[1] : invocation.args[1][i] > 0
    /\ Len(invocation.result.value) >= 2

(***************************************************************************)
(* C30: assigning kernel.bias replaces only the bias: after a successful   *)
(* assignment the bias property returns the assigned object and mcusher    *)
(* is the object it was before; an assignment rejected with ValueError     *)
(* changes neither the bias nor the usher.                                 *)
(***************************************************************************)
C30_BiasSetter ==
    invocation.op = "bias.setter" =>
        LET bias == invocation.args[1]
            before == invocation.args[2]
        IN  /\ invocation.result = "none" =>
                /\ bias_getter(kernel) = bias.name
                /\ mcusher_getter(kernel) = mcusher_getter(before)
            /\ invocation.result = "ValueError" =>
                /\ bias_getter(kernel) = bias_getter(before)
                /\ mcusher_getter(kernel) = mcusher_getter(before)

\* the part of C30 about a rejected assignment
C30_Rejected ==
    invocation.op = "bias.setter" /\ invocation.result = "ValueError" =>
        kernel = invocation.args[2]

====
